---- MODULE Spec2Model ----
(***************************************************************************)
(* Model of the Ollama -> vLLM translating proxy                           *)
(* (src/ollamify_vllm_proxy.py).                                           *)
(*                                                                         *)
(* Text (request bodies, header values, backend SSE lines) is a sequence   *)
(* of lexemes: the structural characters of JSON, the blank " ", the       *)
(* quote, and words.  A JSON value is a record                             *)
(*   [t |-> kind, s |-> lexemes, o |-> members, a |-> elements]            *)
(* with kind one of "null", "bool", "num", "str", "obj", "arr".            *)
(***************************************************************************)
EXTENDS Integers, Sequences, FiniteSets, TLC

(***************************************************************************)
(* Bounds of the model.                                                    *)
(***************************************************************************)
\* Longest backend stream (in lines) the transcoder is fed.
MaxLines == 3

\* Longest backend byte stream (in chunks) the native relay is fed.
MaxChunks == 2

\* Requests that are in flight together.
MaxRequests == 2

\* Most frames one of several requests in flight emits.
MaxFrames == 2

(***************************************************************************)
(* JSON values.                                                            *)
(***************************************************************************)
JNull == [t |-> "null", s |-> <<>>, o |-> <<>>, a |-> <<>>]

JBool(b) == [t |-> "bool", s |-> <<IF b THEN "true" ELSE "false">>, o |-> <<>>, a |-> <<>>]

JNum(n) == [t |-> "num", s |-> <<n>>, o |-> <<>>, a |-> <<>>]

JStr(s) == [t |-> "str", s |-> s, o |-> <<>>, a |-> <<>>]

JObj(o) == [t |-> "obj", s |-> <<>>, o |-> o, a |-> <<>>]

JArr(a) == [t |-> "arr", s |-> <<>>, o |-> <<>>, a |-> a]

\* The key "name" of a JSON object.
K(name) == <<name>>

NumTokens == {"0", "1", "5", "7"}

(***************************************************************************)
(* json.loads: a recursive-descent parser over lexemes.                    *)
(***************************************************************************)
RECURSIVE SkipWs(_)
SkipWs(ts) == IF ts # <<>> /\ Head(ts) = " " THEN SkipWs(Tail(ts)) ELSE ts

ParseFail == [ok |-> FALSE, val |-> JNull, rest |-> <<>>]

ParseOk(v, rest) == [ok |-> TRUE, val |-> v, rest |-> rest]

\* The lexemes after an opening quote, up to the closing quote.
ParseString(r) ==
    LET closing == {i \in 1..Len(r) : r[i] = "\""}
    IN  IF closing = {} THEN ParseFail
        ELSE LET i == CHOOSE j \in closing : \A k \in closing : j <= k
             IN  ParseOk(JStr(SubSeq(r, 1, i - 1)), SubSeq(r, i + 1, Len(r)))

RECURSIVE ParseValue(_), ParseMembers(_, _), ParseElements(_, _)
ParseValue(ts0) ==
    LET ts == SkipWs(ts0)
    IN  IF ts = <<>> THEN ParseFail
        ELSE LET h == Head(ts)
                 r == Tail(ts)
                 r1 == SkipWs(r)
             IN  CASE h = "{" ->
                        IF r1 # <<>> /\ Head(r1) = "}"
                        THEN ParseOk(JObj(<<>>), Tail(r1))
                        ELSE ParseMembers(r1, <<>>)
                   [] h = "[" ->
                        IF r1 # <<>> /\ Head(r1) = "]"
                        THEN ParseOk(JArr(<<>>), Tail(r1))
                        ELSE ParseElements(r1, <<>>)
                   [] h = "\"" -> ParseString(r)
                   [] h = "true" -> ParseOk(JBool(TRUE), r)
                   [] h = "false" -> ParseOk(JBool(FALSE), r)
                   [] h = "null" -> ParseOk(JNull, r)
                   [] h \in NumTokens -> ParseOk(JNum(h), r)
                   [] OTHER -> ParseFail

\* Members of an object; a repeated key keeps its last value.
ParseMembers(ts, acc) ==
    LET t1 == SkipWs(ts)
    IN  IF t1 = <<>> \/ Head(t1) # "\"" THEN ParseFail
        ELSE LET k == ParseString(Tail(t1))
                 t2 == SkipWs(k.rest)
             IN  IF ~k.ok \/ t2 = <<>> \/ Head(t2) # ":" THEN ParseFail
                 ELSE LET v == ParseValue(Tail(t2))
                          acc2 == (k.val.s :> v.val) @@ acc
                          t3 == SkipWs(v.rest)
                      IN  IF ~v.ok \/ t3 = <<>> THEN ParseFail
                          ELSE IF Head(t3) = "}" THEN ParseOk(JObj(acc2), Tail(t3))
                          ELSE IF Head(t3) = "," THEN ParseMembers(Tail(t3), acc2)
                          ELSE ParseFail

ParseElements(ts, acc) ==
    LET v == ParseValue(ts)
        acc2 == Append(acc, v.val)
        t3 == SkipWs(v.rest)
    IN  IF ~v.ok \/ t3 = <<>> THEN ParseFail
        ELSE IF Head(t3) = "]" THEN ParseOk(JArr(acc2), Tail(t3))
        ELSE IF Head(t3) = "," THEN ParseElements(Tail(t3), acc2)
        ELSE ParseFail

\* json.loads(text): ok = FALSE stands for json.JSONDecodeError.
JsonLoads(ts) ==
    LET r == ParseValue(ts)
    IN  IF r.ok /\ SkipWs(r.rest) = <<>>
        THEN [ok |-> TRUE, val |-> r.val]
        ELSE [ok |-> FALSE, val |-> JNull]

(***************************************************************************)
(* Python semantics of the values the handlers touch.                      *)
(***************************************************************************)
\* bool(v), the test of "if v" / "if not v".
Truthy(v) ==
    CASE v.t = "null" -> FALSE
      [] v.t = "bool" -> v.s = <<"true">>
      [] v.t = "num" -> v.s # <<"0">>
      [] v.t = "str" -> v.s # <<>>
      [] v.t = "obj" -> DOMAIN v.o # {}
      [] v.t = "arr" -> v.a # <<>>

\* A value or an exception: exc = "none" when the evaluation succeeded.
Val(v) == [exc |-> "none", val |-> v]

Raise(e) == [exc |-> e, val |-> JNull]

\* Evaluation in sequence: F on the value of x unless x raised.
Then(x, F(_)) == IF x.exc = "none" THEN F(x.val) ELSE x

\* v[name]: a member of a dict; KeyError / TypeError otherwise.
GetItemKey(v, name) ==
    IF v.t = "obj"
    THEN IF K(name) \in DOMAIN v.o THEN Val(v.o[K(name)]) ELSE Raise("KeyError")
    ELSE Raise("TypeError")

\* v[0]: first element of a list, first character of a str.
GetItem0(v) ==
    CASE v.t = "arr" -> IF v.a # <<>> THEN Val(v.a[1]) ELSE Raise("IndexError")
      [] v.t = "str" -> IF v.s # <<>> THEN Val(JStr(<<v.s[1]>>)) ELSE Raise("IndexError")
      [] v.t = "obj" -> Raise("KeyError")
      [] OTHER -> Raise("TypeError")

\* v.get(name, default): only a dict has the method.
DictGet(v, name, default) ==
    IF v.t = "obj"
    THEN Val(IF K(name) \in DOMAIN v.o THEN v.o[K(name)] ELSE default)
    ELSE Raise("AttributeError")

(***************************************************************************)
(* Text helpers.                                                           *)
(***************************************************************************)
Q == "\""

\* text.startswith(prefix)
StartsWith(text, prefix) ==
    Len(text) >= Len(prefix) /\ SubSeq(text, 1, Len(prefix)) = prefix

RECURSIVE RStripWs(_)
RStripWs(ts) ==
    IF ts # <<>> /\ ts[Len(ts)] = " " THEN RStripWs(SubSeq(ts, 1, Len(ts) - 1)) ELSE ts

\* text.strip()
Strip(ts) == RStripWs(SkipWs(ts))

\* The lexemes of a JSON string literal / of a member "name": value.
Lit(word) == <<Q, word, Q>>

Member(name, valueText) == Lit(name) \o <<":">> \o valueText

(***************************************************************************)
(* Configuration (module constants of the proxy).                          *)
(***************************************************************************)
VLLM_MODEL == "unsloth/medgemma-27b-text-it-unsloth-bnb-4bit"

\* time.strftime("%Y-%m-%dT%H:%M:%SZ", time.gmtime()): the clock is abstract.
CreatedAt == JStr(<<"utc-now">>)

(***************************************************************************)
(* map_options                                                             *)
(***************************************************************************)
\* out[name] = v
SetKey(o, name, v) == (K(name) :> v) @@ o

OptionNames == {"temperature", "top_p", "num_predict", "max_tokens"}

\* "name in options" for the containers that support the test.
Contains(options, name) ==
    CASE options.t = "obj" -> K(name) \in DOMAIN options.o
      [] options.t = "arr" -> \E i \in 1..Len(options.a) : options.a[i] = JStr(<<name>>)
      [] options.t = "str" -> \E i \in 1..Len(options.s) : options.s[i] = name
      [] OTHER -> FALSE

\* A mapping that passes every option on.
map_optionsCopiesAll(options) ==
    IF ~Truthy(options) THEN Val(JObj(<<>>))
    ELSE IF options.t # "obj" THEN Raise("TypeError")
    ELSE Val(JObj(options.o))

\* A mapping in which the alias is applied last.
map_optionsAliasWins(options) ==
    IF ~Truthy(options) THEN Val(JObj(<<>>))
    ELSE IF options.t \in {"num", "bool"} THEN Raise("TypeError")
    ELSE IF options.t # "obj"
    THEN IF \E n \in OptionNames : Contains(options, n)
         THEN Raise("TypeError") ELSE Val(JObj(<<>>))
    ELSE LET o0 == <<>>
             o1 == IF Contains(options, "temperature")
                   THEN SetKey(o0, "temperature", options.o[K("temperature")]) ELSE o0
             o2 == IF Contains(options, "top_p")
                   THEN SetKey(o1, "top_p", options.o[K("top_p")]) ELSE o1
             o3 == IF Contains(options, "max_tokens")
                   THEN SetKey(o2, "max_tokens", options.o[K("max_tokens")]) ELSE o2
             o4 == IF Contains(options, "num_predict")
                   THEN SetKey(o3, "max_tokens", options.o[K("num_predict")]) ELSE o3
         IN  Val(JObj(o4))

map_options(options) ==
    IF ~Truthy(options) THEN Val(JObj(<<>>))
    ELSE IF options.t \in {"num", "bool"} THEN Raise("TypeError")
    ELSE IF options.t # "obj"
    THEN IF \E n \in OptionNames : Contains(options, n)
         THEN Raise("TypeError") ELSE Val(JObj(<<>>))
    ELSE LET o0 == <<>>
             o1 == IF Contains(options, "temperature")
                   THEN SetKey(o0, "temperature", options.o[K("temperature")]) ELSE o0
             o2 == IF Contains(options, "top_p")
                   THEN SetKey(o1, "top_p", options.o[K("top_p")]) ELSE o1
             o3 == IF Contains(options, "num_predict")
                   THEN SetKey(o2, "max_tokens", options.o[K("num_predict")]) ELSE o2
             o4 == IF Contains(options, "max_tokens")
                   THEN SetKey(o3, "max_tokens", options.o[K("max_tokens")]) ELSE o3
         IN  Val(JObj(o4))

(***************************************************************************)
(* httpx exception classes and the except chains of the handlers.          *)
(***************************************************************************)
\* The classes an exception is an instance of.
ExcBases(e) ==
    CASE e = "ConnectTimeout" ->
            {"ConnectTimeout", "TimeoutException", "TransportError", "RequestError", "HTTPError", "Exception"}
      [] e = "ReadTimeout" ->
            {"ReadTimeout", "TimeoutException", "TransportError", "RequestError", "HTTPError", "Exception"}
      [] e = "ConnectError" ->
            {"ConnectError", "NetworkError", "TransportError", "RequestError", "HTTPError", "Exception"}
      [] e = "ReadError" ->
            {"ReadError", "NetworkError", "TransportError", "RequestError", "HTTPError", "Exception"}
      [] e = "HTTPStatusError" -> {"HTTPStatusError", "HTTPError", "Exception"}
      [] OTHER -> {e, "Exception"}

\* The status of the first except clause that matches, 0 when none does.
RECURSIVE FirstMatch(_, _)
FirstMatch(chain, e) ==
    IF chain = <<>> THEN 0
    ELSE IF Head(chain).cls \in ExcBases(e) THEN Head(chain).status
    ELSE FirstMatch(Tail(chain), e)

\* except httpx.HTTPError around the non-streaming backend call of the
\* translated routes.
TranslatedExcept == <<[cls |-> "HTTPError", status |-> 502]>>

\* A variant that tests the general class before the timeouts.
PassthroughExceptGeneralFirst ==
    << [cls |-> "HTTPError", status |-> 502],
       [cls |-> "ReadTimeout", status |-> 504],
       [cls |-> "ConnectTimeout", status |-> 503],
       [cls |-> "Exception", status |-> 500] >>

\* except ReadTimeout / ConnectTimeout / HTTPError / Exception of both
\* passthrough sub-cases.
PassthroughExcept ==
    << [cls |-> "ReadTimeout", status |-> 504],
       [cls |-> "ConnectTimeout", status |-> 503],
       [cls |-> "HTTPError", status |-> 502],
       [cls |-> "Exception", status |-> 500] >>

(***************************************************************************)
(* Response synthesis (non-streaming) and stream frames.                   *)
(***************************************************************************)
\* The name of the text field of a route's frames.
TextField(route) == IF route = "chat" THEN "message" ELSE "response"

\* A text that is nested in a message object on both routes.
TextValueNested(route, text) ==
    JObj(SetKey(SetKey(<<>>, "role", JStr(<<"assistant">>)), "content", text))

\* The text as the route carries it: nested message object or plain field.
TextValue(route, text) ==
    IF route = "chat"
    THEN JObj(SetKey(SetKey(<<>>, "role", JStr(<<"assistant">>)), "content", text))
    ELSE text

\* The text of a frame, whatever its route.
FrameText(f) ==
    IF K("message") \in DOMAIN f.o THEN f.o[K("message")].o[K("content")]
    ELSE f.o[K("response")]

Zero == JNum("0")

BaseFrame(route, model, text, done) ==
    SetKey(SetKey(SetKey(SetKey(<<>>, "model", model), "created_at", CreatedAt),
                  TextField(route), TextValue(route, text)), "done", JBool(done))

Stats(o, reason, promptCount, evalCount) ==
    SetKey(SetKey(SetKey(SetKey(SetKey(SetKey(SetKey(o,
        "done_reason", reason), "total_duration", Zero), "load_duration", Zero),
        "prompt_eval_count", promptCount), "prompt_eval_duration", Zero),
        "eval_count", evalCount), "eval_duration", Zero)

\* data["choices"][0]
FirstChoice(data) == Then(GetItemKey(data, "choices"), GetItem0)

\* first["message"]["content"]
MessageContent(first) ==
    Then(GetItemKey(first, "message"), LAMBDA message : GetItemKey(message, "content"))

\* data.get("usage", {}).get(name, 0)
UsageCount(data, name) ==
    Then(DictGet(data, "usage", JObj(<<>>)), LAMBDA usage : DictGet(usage, name, Zero))

\* ollama_resp built from a complete backend reply.
Synthesize(route, data, model) ==
    IF FirstChoice(data).exc # "none" THEN Raise(FirstChoice(data).exc)
    ELSE IF MessageContent(FirstChoice(data).val).exc # "none"
    THEN Raise(MessageContent(FirstChoice(data).val).exc)
    ELSE IF UsageCount(data, "prompt_tokens").exc # "none"
    THEN Raise(UsageCount(data, "prompt_tokens").exc)
    ELSE Val(JObj(Stats(
            BaseFrame(route, model, MessageContent(FirstChoice(data).val).val, TRUE),
            DictGet(FirstChoice(data).val, "finish_reason", JStr(<<"stop">>)).val,
            UsageCount(data, "prompt_tokens").val,
            UsageCount(data, "completion_tokens").val)))

\* A final object that does not say done.
TerminalFrameNotDone(route, model) ==
    JObj(Stats(BaseFrame(route, model, JStr(<<>>), FALSE), JStr(<<"stop">>), Zero, Zero))

\* final_obj of the streamers.
TerminalFrame(route, model) ==
    JObj(Stats(BaseFrame(route, model, JStr(<<>>), TRUE), JStr(<<"stop">>), Zero, Zero))

\* obj of the streamers.
ContentFrame(route, model, piece) == JObj(BaseFrame(route, model, piece, FALSE))

IsTerminal(f) == K("done") \in DOMAIN f.o /\ f.o[K("done")] = JBool(TRUE)

(***************************************************************************)
(* One iteration of the streamers' loop over resp.aiter_lines().           *)
(***************************************************************************)
DONE == <<"[", "DONE", "]">>

\* What the loop body does with one line:
\*   "skip"  - continue without a frame,   "final" - terminal frame and break,
\*   "emit"  - one content frame (piece),  "raise" - an exception leaves the loop.
Step(act, piece, exc) == [act |-> act, piece |-> piece, exc |-> exc]

\* chunk["choices"][0]["delta"].get("content", "")
Piece(chunk) ==
    Then(Then(Then(GetItemKey(chunk, "choices"), GetItem0),
              LAMBDA first : GetItemKey(first, "delta")),
         LAMBDA delta : DictGet(delta, "content", JStr(<<>>)))

\* A loop body without the "if not piece: continue" test.
ProcessPayloadEmitsEmpty(data_str) ==
    IF ~JsonLoads(data_str).ok THEN Step("skip", JNull, "none")
    ELSE LET piece == Piece(JsonLoads(data_str).val)
         IN  IF piece.exc # "none" THEN Step("raise", JNull, piece.exc)
             ELSE Step("emit", piece.val, "none")

\* A loop body that does not catch json.JSONDecodeError.
ProcessPayloadDecodeRaises(data_str) ==
    IF ~JsonLoads(data_str).ok THEN Step("raise", JNull, "JSONDecodeError")
    ELSE LET piece == Piece(JsonLoads(data_str).val)
         IN  IF piece.exc # "none" THEN Step("raise", JNull, piece.exc)
             ELSE IF ~Truthy(piece.val) THEN Step("skip", JNull, "none")
             ELSE Step("emit", piece.val, "none")

\* The loop body after the sentinel test, on the stripped payload.
ProcessPayload(data_str) ==
    IF ~JsonLoads(data_str).ok THEN Step("skip", JNull, "none")
    ELSE LET piece == Piece(JsonLoads(data_str).val)
         IN  IF piece.exc # "none" THEN Step("raise", JNull, piece.exc)
             ELSE IF ~Truthy(piece.val) THEN Step("skip", JNull, "none")
             ELSE Step("emit", piece.val, "none")

ProcessLine(line) ==
    IF line = <<>> THEN Step("skip", JNull, "none")
    ELSE IF ~StartsWith(line, <<"data:">>) THEN Step("skip", JNull, "none")
    ELSE IF Strip(SubSeq(line, 2, Len(line))) = DONE THEN Step("final", JNull, "none")
    ELSE ProcessPayload(Strip(SubSeq(line, 2, Len(line))))

(***************************************************************************)
(* The environment: requests of clients and behaviour of the backend.      *)
(***************************************************************************)
Methods == {"GET", "POST", "PUT", "DELETE"}

Paths == {"api/chat", "api/generate", "api/tags",
          "v1/chat/completions", "v1/completions", "v1/models"}

JsonType == <<"application/json">>

\* A content-type header.
ContentType(value) == "content-type" :> value

Host == "host" :> <<"proxy:11443">>

HeaderSets ==
    { Host,
      Host @@ ContentType(JsonType),
      Host @@ ContentType(JsonType \o <<";", " ", "charset=utf-8">>),
      Host @@ ContentType(<<"text/plain">>) }

Queries == {<<>>, <<"verbose=1">>}

Obj(members) == <<"{">> \o members \o <<"}">>

\* Request bodies, as received.
Bodies ==
    { <<>>,
      Obj(<<>>),
      Obj(Member("model", Lit("m1"))),
      Obj(Member("model", Lit("m1")) \o <<",">> \o Member("stream", <<"true">>)),
      Obj(Member("stream", <<"1">>) \o <<",">> \o Member("prompt", Lit("hi"))),
      Obj(Member("model", Lit("m1")) \o <<",">> \o Member("stream", <<"false">>) \o <<",">>
          \o Member("options", Obj(Member("num_predict", <<"5">>) \o <<",">>
                                   \o Member("max_tokens", <<"7">>) \o <<",">>
                                   \o Member("top_k", <<"1">>)))),
      Obj(Member("model", Lit("m1")) \o <<",">> \o Member("options", <<"7">>)),
      Obj(Member("model", Lit("m1")) \o <<",">>
          \o Member("options", Obj(Member("model", Lit("other")) \o <<",">>
                                   \o Member("stream", <<"true">>) \o <<",">>
                                   \o Member("messages", <<"[", "1", "]">>) \o <<",">>
                                   \o Member("temperature", <<"1">>)))),
      <<"{">>,
      <<"[", "1", "]">>,
      <<"null">> }

Requests ==
    [method : Methods, path : Paths, headers : HeaderSets, body : Bodies, query : Queries]

NoRequest == [method |-> "", path |-> "", headers |-> <<>>, body |-> <<>>, query |-> <<>>]

Choice(members) == Obj(Member("choices", <<"[">> \o members \o <<"]">>))

\* Bodies of backend replies.
BackendBodies ==
    { Obj(Member("choices", <<"[">> \o Obj(Member("message", Obj(Member("content", Lit("Hi"))))
                                          \o <<",">> \o Member("finish_reason", Lit("length")))
                            \o <<"]">>)
          \o <<",">> \o Member("usage", Obj(Member("prompt_tokens", <<"5">>) \o <<",">>
                                            \o Member("completion_tokens", <<"7">>)))),
      Choice(Obj(Member("message", Obj(Member("content", Lit("Hi")))))),
      Obj(Member("choices", <<"[">> \o Obj(Member("message", Obj(Member("content", Lit("Hi"))))
                                          \o <<",">> \o Member("finish_reason", <<"null">>))
                            \o <<"]">>)
          \o <<",">> \o Member("usage", Obj(<<>>))),
      Obj(Member("choices", <<"[">> \o Obj(Member("message", Obj(Member("content", Lit("Hi")))))
                            \o <<"]">>)
          \o <<",">> \o Member("usage", <<"null">>)),
      Obj(<<>>),
      Choice(<<>>),
      Choice(Obj(<<>>)),
      Choice(Obj(Member("message", Obj(<<>>)))),
      <<"Not", " ", "Found">> }

BackendStatuses == {200, 404, 500}

BackendHeaderSets == { <<>>, ContentType(JsonType) }

\* Exceptions the httpx client raises for a failed exchange.
BackendExcs == {"ConnectTimeout", "ConnectError", "ReadTimeout", "ReadError", "InvalidURL"}

\* Exceptions that end an open backend stream.
StreamExcs == {"ReadTimeout", "ReadError"}

Reply(status, headers, body) ==
    [exc |-> "none", status |-> status, headers |-> headers, body |-> body]

Failure(e) == [exc |-> e, status |-> 0, headers |-> <<>>, body |-> <<>>]

\* No exchange with the backend (yet).
NoOutcome == Reply(0, <<>>, <<>>)

BackendReplies ==
    { Reply(st, h, b) : st \in BackendStatuses, h \in BackendHeaderSets, b \in BackendBodies }
    \cup { Failure(e) : e \in BackendExcs }

\* Outcomes of opening a backend stream: the body arrives later.
StreamOpenings ==
    { Reply(st, h, <<>>) : st \in BackendStatuses, h \in BackendHeaderSets }
    \cup { Failure(e) : e \in BackendExcs }

DeltaLine(deltaMembers) ==
    <<"data:", " ">> \o Choice(Obj(Member("delta", Obj(deltaMembers))))

\* Lines of a backend event stream.
LineSet ==
    { <<>>,
      <<":", " ", "ping">>,
      <<"data:", " ", "{", Q, "choices">>,
      DeltaLine(Member("content", Lit("He"))),
      DeltaLine(Member("content", Lit("llo"))),
      DeltaLine(Member("content", <<Q, Q>>)),
      DeltaLine(Member("role", Lit("assistant"))) \o <<" ">>,
      <<"data:", " ">> \o DONE,
      <<"data:">> \o Obj(<<>>),
      <<"data:", " ">> \o Choice(<<>>),
      <<"data:", " ">> \o Choice(Obj(<<>>)) }

\* Opening the backend-native stream: client.request(..., stream=True) is a
\* TypeError for an httpx whose request() has no such keyword.
NativeOpenings == StreamOpenings \cup { Failure("TypeError") }

\* Chunks of a backend byte stream.
ChunkSet == { <<>>, <<"data:", " ", "x">>, <<"y">> }

(***************************************************************************)
(* Request analysis at the top of the proxy handler.                       *)
(***************************************************************************)
\* headers.get(name, default)
HeaderGet(headers, name, default) ==
    IF name \in DOMAIN headers THEN headers[name] ELSE default

\* Headers from which nothing is removed.
HeaderPopNothing(headers, name) == headers

\* headers.pop(name, None)
HeaderPop(headers, name) == [k \in DOMAIN headers \ {name} |-> headers[k]]

\* json_body: None (JNull) unless the body is non-empty, the content type
\* starts with application/json and the body parses.
JsonBody(r) ==
    IF r.body # <<>> /\ StartsWith(HeaderGet(r.headers, "content-type", <<>>), JsonType)
    THEN IF JsonLoads(r.body).ok THEN JsonLoads(r.body).val ELSE JNull
    ELSE JNull

\* bool(json_body.get("stream", False)) for a POST with a truthy json_body;
\* json_body.get raises when the body is not a dict.
StreamFlag(method, json_body) ==
    IF method = "POST" /\ Truthy(json_body)
    THEN Then(DictGet(json_body, "stream", JBool(FALSE)), LAMBDA flag : Val(JBool(Truthy(flag))))
    ELSE Val(JBool(FALSE))

\* is_streaming
IsStreaming(method, json_body) == Truthy(StreamFlag(method, json_body).val)

\* The branch of the handler that serves the request.
Route(r, json_body) ==
    IF StreamFlag(r.method, json_body).exc # "none" THEN "error"
    ELSE IF r.path = "api/chat" /\ r.method = "POST" /\ Truthy(json_body) THEN "chat"
    ELSE IF r.path = "api/generate" /\ r.method = "POST" /\ Truthy(json_body) THEN "generate"
    ELSE IF r.path = "api/tags" /\ r.method = "GET" THEN "tags"
    ELSE IF /\ r.method = "POST" /\ Truthy(json_body) /\ IsStreaming(r.method, json_body)
            /\ r.path \in {"v1/chat/completions", "v1/completions"}
         THEN "native"
    ELSE "passthrough"

\* ollama_model
OllamaModel(json_body) == DictGet(json_body, "model", JStr(<<"ollama-model">>)).val

\* messages of the backend payload.
Messages(json_body, route) ==
    IF route = "chat" THEN DictGet(json_body, "messages", JArr(<<>>)).val
    ELSE JArr(<<JObj(SetKey(SetKey(<<>>, "role", JStr(<<"user">>)),
                            "content", DictGet(json_body, "prompt", JStr(<<>>)).val))>>)

\* The payload before the options are merged in.
BasePayload(json_body, route, is_streaming) ==
    SetKey(SetKey(SetKey(<<>>, "model", JStr(<<VLLM_MODEL>>)),
                  "messages", Messages(json_body, route)),
           "stream", JBool(is_streaming))

\* payload: the fixed members, then payload.update(map_options(options)).
Payload(json_body, route, is_streaming) ==
    Then(map_options(DictGet(json_body, "options", JObj(<<>>)).val),
         LAMBDA mapped : Val(JObj(mapped.o @@ BasePayload(json_body, route, is_streaming))))

\* A request to the backend.
Upstream(method, path, headers, content, params, json) ==
    [method |-> method, path |-> path, headers |-> headers, content |-> content,
     params |-> params, json |-> json]

ChatCompletions(payload) ==
    Upstream("POST", "v1/chat/completions", <<>>, <<>>, <<>>, payload)

\* A forward of what the parse attempt left: nothing when it failed.
ForwardedParsedBody(r) ==
    Upstream(r.method, r.path, HeaderPop(r.headers, "host"),
             IF JsonLoads(r.body).ok THEN r.body ELSE <<>>, r.query, JNull)

Forwarded(r) ==
    Upstream(r.method, r.path, HeaderPop(r.headers, "host"), r.body, r.query, JNull)

\* json_response headers.
JsonHeaders == ContentType(JsonType)

TextHeaders == ContentType(<<"text/plain">>)

ErrorObject == JObj(SetKey(<<>>, "error", JStr(<<"Backend vLLM error">>)))

\* The body of the classified failure responses.
ErrorText(status) ==
    CASE status = 504 -> <<"Request timeout">>
      [] status = 503 -> <<"Connection timeout">>
      [] status = 502 -> <<"Proxy error">>
      [] OTHER -> <<"Internal proxy error">>

TagsDetails ==
    JObj(SetKey(SetKey(<<>>, "parameter_size", JStr(<<"27B">>)),
                "quantization_level", JStr(<<"4bit">>)))

TagsModel ==
    JObj(SetKey(SetKey(SetKey(SetKey(SetKey(<<>>,
        "name", JStr(<<"medgemma:27b">>)), "modified_at", CreatedAt),
        "size", Zero), "digest", JStr(<<>>)), "details", TagsDetails))

TagsObject == JObj(SetKey(<<>>, "models", JArr(<<TagsModel>>)))

\* vllm_chat_request(payload, stream=False): the reply's JSON, or the
\* exception of the transport, of raise_for_status or of r.json().
vllm_chat_request(b) ==
    IF b.exc # "none" THEN Raise(b.exc)
    ELSE IF b.status >= 400 THEN Raise("HTTPStatusError")
    ELSE IF ~JsonLoads(b.body).ok THEN Raise("JSONDecodeError")
    ELSE Val(JsonLoads(b.body).val)

(***************************************************************************)
(* State.                                                                  *)
(***************************************************************************)
VARIABLES
    pc,          \* "idle", "gen", "stream", "yield", "yieldfinal", "relaystart",
                 \* "relay", "cancelled", "done"
    req,         \* the request being served
    route,       \* the branch of the handler that serves it
    options,     \* the options of the request, as the handler reads them
    mapped,      \* what map_options made of them
    payload,     \* the backend payload the streamer closes over
    ollama_model,\* the client's model name the handler / streamer echoes
    status,      \* status code the client received (0: none yet)
    raised,      \* exception that escaped the handler or a streamer ("none")
    respHeaders, \* headers of the response
    out,         \* front-protocol objects delivered to the client, in order
    rawOut,      \* raw bodies / chunks delivered to the client, in order
    sent,        \* requests made to the backend, in order
    outcome,     \* what the backend did with the request's exchange
    client,      \* the request's httpx.AsyncClient: "none", "open", "closed"
    closes,      \* number of client.aclose() calls (context exit included)
    lines,       \* lines / chunks read from the backend stream, in order
    streamEnd,   \* how the stream ended: "none", "sentinel", "eof",
                 \* "readerror", "raise", "openfail", "disconnect"
    workers,     \* the requests in flight together: each one's position,
                 \* client, frames and status
    clients      \* every httpx.AsyncClient created so far, in order

\* The state of one request, served on its own.
requestVars == <<pc, req, route, options, mapped, payload, ollama_model, status, raised, respHeaders, out,
          rawOut, sent, outcome, client, closes, lines, streamEnd>>

vars == <<requestVars, workers, clients>>

\* A request that has not arrived.
IdleWorker == [pc |-> "idle", kind |-> "none", client |-> 0, frames |-> 0, status |-> 0, raised |-> "none"]

Init ==
    /\ workers = [i \in 1..MaxRequests |-> IdleWorker]
    /\ clients = <<>>
    /\ pc = "idle"
    /\ req = NoRequest
    /\ route = "none"
    /\ options = JNull
    /\ mapped = JNull
    /\ payload = JNull
    /\ ollama_model = JNull
    /\ status = 0
    /\ raised = "none"
    /\ respHeaders = <<>>
    /\ out = <<>>
    /\ rawOut = <<>>
    /\ sent = <<>>
    /\ outcome = NoOutcome
    /\ client = "none"
    /\ closes = 0
    /\ lines = <<>>
    /\ streamEnd = "none"

\* An exception leaves the handler: the framework answers 500 and the
\* logging middleware re-raises.
Unhandled(e) ==
    /\ status' = 500
    /\ raised' = e
    /\ respHeaders' = TextHeaders
    /\ out' = <<>>
    /\ rawOut' = <<<<"Internal Server Error">>>>

\* is_streaming = bool(json_body.get(...)) on a body that is not a dict.
RoutingError(r, json_body) ==
    /\ Route(r, json_body) = "error"
    /\ pc' = "done"
    /\ req' = r
    /\ route' = "error"
    /\ Unhandled(StreamFlag(r.method, json_body).exc)
    /\ UNCHANGED <<outcome, options, mapped, payload, ollama_model, sent, client, closes, lines, streamEnd>>

\* An inventory that depends on an exchange with the backend.
TagsFromBackend(r, json_body) ==
    /\ Route(r, json_body) = "tags"
    /\ pc' = "done"
    /\ req' = r
    /\ route' = "tags"
    /\ sent' = Append(sent, Forwarded(r))
    /\ client' = "closed"
    /\ closes' = closes + 1
    /\ respHeaders' = JsonHeaders
    /\ UNCHANGED <<options, mapped, payload, ollama_model, raised, rawOut, lines, streamEnd>>
    /\ \E b \in BackendReplies :
         /\ outcome' = b
         /\ IF b.exc = "none"
            THEN status' = 200 /\ out' = <<TagsObject>>
            ELSE status' = 502 /\ out' = <<ErrorObject>>

\* GET api/tags: the static inventory.
Tags(r, json_body) ==
    /\ Route(r, json_body) = "tags"
    /\ pc' = "done"
    /\ req' = r
    /\ route' = "tags"
    /\ status' = 200
    /\ respHeaders' = JsonHeaders
    /\ out' = <<TagsObject>>
    /\ UNCHANGED <<outcome, options, mapped, payload, ollama_model, raised, rawOut, sent, client,
                   closes, lines, streamEnd>>

\* The payload could not be built: map_options raised.
TranslateFails(r, json_body) ==
    /\ Route(r, json_body) \in {"chat", "generate"}
    /\ Payload(json_body, Route(r, json_body), IsStreaming(r.method, json_body)).exc # "none"
    /\ pc' = "done"
    /\ req' = r
    /\ route' = Route(r, json_body)
    /\ ollama_model' = OllamaModel(json_body)
    /\ Unhandled(Payload(json_body, Route(r, json_body), IsStreaming(r.method, json_body)).exc)
    /\ options' = DictGet(json_body, "options", JObj(<<>>)).val
    /\ UNCHANGED <<outcome, mapped, payload, sent, client, closes, lines, streamEnd>>

\* The answer of a non-streaming translated request, given the outcome of
\* vllm_chat_request: except httpx.HTTPError, then the synthesis.
Answer(call, resp) ==
    IF call.exc # "none"
    THEN IF FirstMatch(TranslatedExcept, call.exc) # 0
         THEN /\ status' = FirstMatch(TranslatedExcept, call.exc)
              /\ respHeaders' = JsonHeaders
              /\ out' = <<ErrorObject>>
              /\ UNCHANGED <<raised, rawOut>>
         ELSE Unhandled(call.exc)
    ELSE IF resp.exc # "none"
         THEN Unhandled(resp.exc)
         ELSE /\ status' = 200
              /\ respHeaders' = JsonHeaders
              /\ out' = <<resp.val>>
              /\ UNCHANGED <<raised, rawOut>>

\* POST api/chat or api/generate, not streaming: vllm_chat_request(payload,
\* stream=False), which closes its client on both paths, then the answer.
TranslateBuffered(r, json_body) ==
    /\ Route(r, json_body) \in {"chat", "generate"}
    /\ ~IsStreaming(r.method, json_body)
    /\ Payload(json_body, Route(r, json_body), FALSE).exc = "none"
    /\ pc' = "done"
    /\ req' = r
    /\ route' = Route(r, json_body)
    /\ options' = DictGet(json_body, "options", JObj(<<>>)).val
    /\ mapped' = map_options(options').val
    /\ payload' = Payload(json_body, Route(r, json_body), FALSE).val
    /\ ollama_model' = OllamaModel(json_body)
    /\ sent' = Append(sent, ChatCompletions(payload'))
    /\ client' = "closed"
    /\ closes' = closes + 1
    /\ UNCHANGED <<lines, streamEnd>>
    /\ \E b \in BackendReplies : \E call \in {vllm_chat_request(b)} :
         \E resp \in {Synthesize(route', call.val, ollama_model')} :
            outcome' = b /\ Answer(call, resp)

\* POST api/chat or api/generate, streaming: the handler returns the
\* StreamingResponse; the streamer has not run yet.
TranslateStream(r, json_body) ==
    /\ Route(r, json_body) \in {"chat", "generate"}
    /\ IsStreaming(r.method, json_body)
    /\ Payload(json_body, Route(r, json_body), TRUE).exc = "none"
    /\ pc' = "gen"
    /\ req' = r
    /\ route' = Route(r, json_body)
    /\ options' = DictGet(json_body, "options", JObj(<<>>)).val
    /\ mapped' = map_options(options').val
    /\ payload' = Payload(json_body, Route(r, json_body), TRUE).val
    /\ ollama_model' = OllamaModel(json_body)
    /\ status' = 200
    /\ respHeaders' = ContentType(<<"application/x-ndjson">>)
    /\ UNCHANGED <<outcome, raised, out, rawOut, sent, client, closes, lines, streamEnd>>

\* First step of chat_streamer / generate_streamer: the client is created
\* and "async with stream_ctx" sends the request.  A failure here happens
\* before the try block, so its finally clause does not run.
StreamOpen(b) ==
    /\ pc = "gen"
    /\ UNCHANGED <<workers, clients>>
    /\ sent' = Append(sent, ChatCompletions(payload))
    /\ client' = "open"
    /\ outcome' = b
    /\ IF b.exc # "none"
       THEN /\ pc' = "done"
            /\ raised' = b.exc
            /\ streamEnd' = "openfail"
       ELSE /\ pc' = "stream"
            /\ UNCHANGED <<raised, streamEnd>>
    /\ UNCHANGED <<req, route, options, mapped, payload, ollama_model, status, respHeaders, out, rawOut,
                   closes, lines>>

\* The effect of one loop iteration on the stream.
Iterate(step) ==
    CASE step.act = "skip" ->
            UNCHANGED <<pc, out, raised, client, closes, streamEnd>>
      [] step.act = "emit" ->
            /\ pc' = "yield"
            /\ out' = Append(out, ContentFrame(route, ollama_model, step.piece))
            /\ UNCHANGED <<raised, client, closes, streamEnd>>
      [] step.act = "final" ->
            /\ pc' = "yieldfinal"
            /\ out' = Append(out, TerminalFrame(route, ollama_model))
            /\ UNCHANGED <<raised, client, closes, streamEnd>>
      [] step.act = "raise" ->
            /\ pc' = "done"
            /\ raised' = step.exc
            /\ client' = "closed"
            /\ closes' = closes + 1
            /\ streamEnd' = "raise"
            /\ UNCHANGED out

\* One iteration of "async for line in resp.aiter_lines()".
StreamLine(line) ==
    /\ pc = "stream"
    /\ UNCHANGED <<workers, clients>>
    /\ Len(lines) < MaxLines
    /\ lines' = Append(lines, line)
    /\ \E step \in {ProcessLine(line)} : Iterate(step)
    /\ UNCHANGED <<outcome, req, route, options, mapped, payload, ollama_model, status, respHeaders, rawOut, sent>>

\* A loop without the "break" after the terminal frame.
ResumeNoBreak ==
    /\ pc \in {"yield", "yieldfinal"}
    /\ UNCHANGED <<workers, clients>>
    /\ pc' = "stream"
    /\ UNCHANGED <<outcome, req, route, options, mapped, payload, ollama_model, status, raised, respHeaders,
                   out, rawOut, sent, lines, client, closes, streamEnd>>

\* The consumer asks for the next frame: after a content frame the loop
\* goes on, after the terminal frame "break" leaves it (finally: aclose).
Resume ==
    /\ pc \in {"yield", "yieldfinal"}
    /\ UNCHANGED <<workers, clients>>
    /\ IF pc = "yield"
       THEN /\ pc' = "stream"
            /\ UNCHANGED <<client, closes, streamEnd>>
       ELSE /\ pc' = "done"
            /\ client' = "closed"
            /\ closes' = closes + 1
            /\ streamEnd' = "sentinel"
    /\ UNCHANGED <<outcome, req, route, options, mapped, payload, ollama_model, status, raised, respHeaders, out,
                   rawOut, sent, lines>>

\* The backend closes the stream: the loop ends (finally: aclose).
StreamEOF ==
    /\ pc = "stream"
    /\ UNCHANGED <<workers, clients>>
    /\ pc' = "done"
    /\ client' = "closed"
    /\ closes' = closes + 1
    /\ streamEnd' = "eof"
    /\ UNCHANGED <<outcome, req, route, options, mapped, payload, ollama_model, status, raised, respHeaders, out,
                   rawOut, sent, lines>>

\* Reading the next line fails (finally: aclose; the exception goes on).
StreamReadError(e) ==
    /\ pc = "stream"
    /\ UNCHANGED <<workers, clients>>
    /\ pc' = "done"
    /\ raised' = e
    /\ client' = "closed"
    /\ closes' = closes + 1
    /\ streamEnd' = "readerror"
    /\ UNCHANGED <<outcome, req, route, options, mapped, payload, ollama_model, status, respHeaders, out, rawOut,
                   sent, lines>>

\* The classified failure response of the passthrough sub-cases.
Classified(e) ==
    /\ status' = FirstMatch(PassthroughExcept, e)
    /\ respHeaders' = TextHeaders
    /\ rawOut' = <<ErrorText(FirstMatch(PassthroughExcept, e))>>

\* POST v1/chat/completions or v1/completions with stream set: the
\* backend-native streaming passthrough, up to the returned response.
NativeStream(r, json_body) ==
    /\ Route(r, json_body) = "native"
    /\ req' = r
    /\ route' = "native"
    /\ sent' = Append(sent, Forwarded(r))
    /\ UNCHANGED <<options, mapped, payload, ollama_model, raised, out, lines, streamEnd>>
    /\ \E b \in NativeOpenings :
         /\ outcome' = b
         /\ IF b.exc # "none"
            THEN /\ pc' = "done"
                 /\ client' = "closed"
                 /\ closes' = closes + 1
                 /\ Classified(b.exc)
            ELSE /\ pc' = "relaystart"
                 /\ client' = "open"
                 /\ status' = b.status
                 /\ respHeaders' = b.headers @@ ContentType(<<"text/event-stream">>)
                 /\ UNCHANGED <<closes, rawOut>>

\* The server asks openai_streamer for its first chunk: the generator
\* starts and enters its try block.
RelayStart ==
    /\ pc = "relaystart"
    /\ UNCHANGED <<workers, clients>>
    /\ pc' = "relay"
    /\ UNCHANGED <<outcome, req, route, options, mapped, payload, ollama_model, status, raised,
                   respHeaders, out, rawOut, sent, client, closes, lines, streamEnd>>

\* One iteration of "async for chunk in resp.aiter_bytes(1024)".
RelayChunk(chunk) ==
    /\ pc = "relay"
    /\ UNCHANGED <<workers, clients>>
    /\ Len(lines) < MaxChunks
    /\ lines' = Append(lines, chunk)
    /\ rawOut' = IF chunk # <<>> THEN Append(rawOut, chunk) ELSE rawOut
    /\ UNCHANGED <<outcome, pc, req, route, options, mapped, payload, ollama_model, status, raised, respHeaders,
                   out, sent, client, closes, streamEnd>>

\* The backend ends the byte stream (finally: resp.aclose, client.aclose).
RelayEOF ==
    /\ pc = "relay"
    /\ UNCHANGED <<workers, clients>>
    /\ pc' = "done"
    /\ client' = "closed"
    /\ closes' = closes + 1
    /\ streamEnd' = "eof"
    /\ UNCHANGED <<outcome, req, route, options, mapped, payload, ollama_model, status, raised, respHeaders, out,
                   rawOut, sent, lines>>

\* Reading the next chunk fails (finally: resp.aclose, client.aclose).
RelayError(e) ==
    /\ pc = "relay"
    /\ UNCHANGED <<workers, clients>>
    /\ pc' = "done"
    /\ raised' = e
    /\ client' = "closed"
    /\ closes' = closes + 1
    /\ streamEnd' = "readerror"
    /\ UNCHANGED <<outcome, req, route, options, mapped, payload, ollama_model, status, respHeaders, out, rawOut,
                   sent, lines>>

\* The client of a streamed response goes away: the server stops consuming
\* the streamer.  A generator that was started is cancelled or closed at its
\* suspension point (an await of the backend read, or a yield) and unwinds;
\* one that was never started has no frame to unwind and is just dropped.
Disconnect ==
    /\ pc \in {"gen", "stream", "yield", "yieldfinal", "relaystart", "relay"}
    /\ UNCHANGED <<workers, clients>>
    /\ pc' = IF pc \in {"gen", "relaystart"} THEN "done" ELSE "cancelled"
    /\ streamEnd' = "disconnect"
    /\ UNCHANGED <<outcome, req, route, options, mapped, payload, ollama_model, status, raised,
                   respHeaders, out, rawOut, sent, lines, client, closes>>

\* An unwinding that leaves without the finally clause.
UnwindWithoutFinally ==
    /\ pc = "cancelled"
    /\ UNCHANGED <<workers, clients>>
    /\ pc' = "done"
    /\ UNCHANGED <<outcome, req, route, options, mapped, payload, ollama_model, status, raised,
                   respHeaders, out, rawOut, sent, lines, client, closes, streamEnd>>

\* The cancelled streamer unwinds: its finally clause runs (client.aclose,
\* and resp.aclose in openai_streamer) and the generator is finished.
Unwind ==
    /\ pc = "cancelled"
    /\ UNCHANGED <<workers, clients>>
    /\ pc' = "done"
    /\ client' = "closed"
    /\ closes' = closes + 1
    /\ UNCHANGED <<outcome, req, route, options, mapped, payload, ollama_model, status, raised,
                   respHeaders, out, rawOut, sent, lines, streamEnd>>

\* A buffered passthrough that repeats a failed exchange once.
PassthroughRetries(r, json_body) ==
    /\ Route(r, json_body) = "passthrough"
    /\ pc' = "done"
    /\ req' = r
    /\ route' = "passthrough"
    /\ client' = "closed"
    /\ closes' = closes + 1
    /\ UNCHANGED <<options, mapped, payload, ollama_model, raised, out, lines, streamEnd>>
    /\ \E b \in BackendReplies :
         /\ outcome' = b
         /\ IF b.exc # "none"
            THEN /\ sent' = Append(Append(sent, Forwarded(r)), Forwarded(r))
                 /\ Classified(b.exc)
            ELSE /\ sent' = Append(sent, Forwarded(r))
                 /\ status' = b.status
                 /\ respHeaders' = b.headers
                 /\ rawOut' = <<b.body>>

\* Every other request: buffered passthrough ("async with" closes the client).
Passthrough(r, json_body) ==
    /\ Route(r, json_body) = "passthrough"
    /\ pc' = "done"
    /\ req' = r
    /\ route' = "passthrough"
    /\ sent' = Append(sent, Forwarded(r))
    /\ client' = "closed"
    /\ closes' = closes + 1
    /\ UNCHANGED <<options, mapped, payload, ollama_model, raised, out, lines, streamEnd>>
    /\ \E b \in BackendReplies :
         /\ outcome' = b
         /\ IF b.exc # "none"
            THEN Classified(b.exc)
            ELSE /\ status' = b.status
                 /\ respHeaders' = b.headers
                 /\ rawOut' = <<b.body>>

\* The request is over; the next one starts from nothing.
Finish ==
    /\ pc = "done"
    /\ UNCHANGED <<workers, clients>>
    /\ pc' = "idle"
    /\ req' = NoRequest
    /\ route' = "none"
    /\ options' = JNull
    /\ mapped' = JNull
    /\ payload' = JNull
    /\ ollama_model' = JNull
    /\ status' = 0
    /\ raised' = "none"
    /\ respHeaders' = <<>>
    /\ out' = <<>>
    /\ rawOut' = <<>>
    /\ sent' = <<>>
    /\ outcome' = NoOutcome
    /\ client' = "none"
    /\ closes' = 0
    /\ lines' = <<>>
    /\ streamEnd' = "none"

\* A request arrives: the body is read and parsed once, and the handler
\* runs up to its return.
Serve ==
    /\ pc = "idle"
    /\ UNCHANGED <<workers, clients>>
    /\ \E r \in Requests : \E json_body \in {JsonBody(r)} :
          \/ RoutingError(r, json_body)
          \/ Tags(r, json_body)
          \/ TranslateFails(r, json_body)
          \/ TranslateBuffered(r, json_body)
          \/ TranslateStream(r, json_body)
          \/ NativeStream(r, json_body)
          \/ Passthrough(r, json_body)

Next ==
    \/ Serve
    \/ \E b \in StreamOpenings : StreamOpen(b)
    \/ \E line \in LineSet : StreamLine(line)
    \/ Resume
    \/ StreamEOF
    \/ \E e \in StreamExcs : StreamReadError(e)
    \/ RelayStart
    \/ \E chunk \in ChunkSet : RelayChunk(chunk)
    \/ RelayEOF
    \/ \E e \in StreamExcs : RelayError(e)
    \/ Disconnect
    \/ Unwind
    \/ Finish

Spec == Init /\ [][Next]_vars

\* The event loop runs the unwinding of a cancelled streamer.
SpecFair == Spec /\ WF_vars(Unwind)

(***************************************************************************)
(* The plain passthrough variant (src/proxy.py): every request is          *)
(* forwarded; POST api/chat is answered with a StreamingResponse over the  *)
(* backend's streamed response.                                            *)
(***************************************************************************)
\* is_streaming of the plain variant.
PlainIsStreaming(r) == r.path = "api/chat" /\ r.method = "POST"

\* POST api/chat: "async with AsyncClient" and "async with client.stream"
\* around "return StreamingResponse(stream_response(response), ...)".  The
\* return leaves both blocks, which closes the response and the client
\* before the server iterates stream_response.
PlainStream(r) ==
    /\ PlainIsStreaming(r)
    /\ req' = r
    /\ route' = "plainstream"
    /\ sent' = Append(sent, Forwarded(r))
    /\ client' = "closed"
    /\ closes' = closes + 1
    /\ UNCHANGED <<options, mapped, payload, ollama_model, raised, out, lines, streamEnd>>
    /\ \E b \in StreamOpenings :
         /\ outcome' = b
         /\ IF b.exc # "none"
            THEN /\ pc' = "done"
                 /\ Classified(b.exc)
            ELSE /\ pc' = "plainrelay"
                 /\ status' = b.status
                 /\ respHeaders' = b.headers @@ ContentType(JsonType)
                 /\ UNCHANGED rawOut

\* Every other request of the plain variant: client.request, buffered.
PlainBuffered(r) ==
    /\ ~PlainIsStreaming(r)
    /\ pc' = "done"
    /\ req' = r
    /\ route' = "plain"
    /\ sent' = Append(sent, Forwarded(r))
    /\ client' = "closed"
    /\ closes' = closes + 1
    /\ UNCHANGED <<options, mapped, payload, ollama_model, raised, out, lines, streamEnd>>
    /\ \E b \in BackendReplies :
         /\ outcome' = b
         /\ IF b.exc # "none"
            THEN Classified(b.exc)
            ELSE /\ status' = b.status
                 /\ respHeaders' = b.headers
                 /\ rawOut' = <<b.body>>

PlainServe ==
    /\ pc = "idle"
    /\ UNCHANGED <<workers, clients>>
    /\ \E r \in Requests : PlainStream(r) \/ PlainBuffered(r)

\* The server iterates stream_response: response.aiter_bytes on a response
\* that is closed raises httpx.StreamClosed, which the generator logs and
\* re-raises; on an open response it reads the chunks.
PlainRelay ==
    /\ pc = "plainrelay"
    /\ UNCHANGED <<workers, clients>>
    /\ IF client = "closed"
       THEN /\ pc' = "done"
            /\ raised' = "StreamClosed"
            /\ streamEnd' = "raise"
            /\ UNCHANGED <<lines, rawOut>>
       ELSE \E chunk \in ChunkSet :
               /\ Len(lines) < MaxChunks
               /\ lines' = Append(lines, chunk)
               /\ rawOut' = Append(rawOut, chunk)
               /\ UNCHANGED <<pc, raised, streamEnd>>
    /\ UNCHANGED <<outcome, req, route, options, mapped, payload, ollama_model, status,
                   respHeaders, out, sent, client, closes>>

NextPlain ==
    \/ PlainServe
    \/ PlainRelay
    \/ Finish

SpecPlain == Init /\ [][NextPlain]_vars

(***************************************************************************)
(* map_options on its own: the function applied to every option mapping    *)
(* over the recognised names and one unknown name.                         *)
(***************************************************************************)
OptionKeys == {"temperature", "top_p", "num_predict", "max_tokens", "top_k"}

OptionValues == {JNum("0"), JNum("7"), JNull}

\* None (no options), the empty mapping, and every mapping of some of the
\* keys to some of the values.
OptionMappings ==
    {JNull} \cup
    { JObj(m) : m \in UNION { [{K(k) : k \in S} -> OptionValues] : S \in SUBSET OptionKeys } }

InitOptions ==
    /\ workers = [i \in 1..MaxRequests |-> IdleWorker]
    /\ clients = <<>>
    /\ options \in OptionMappings
    /\ mapped = JNull
    /\ pc = "idle"
    /\ req = NoRequest
    /\ route = "none"
    /\ payload = JNull
    /\ ollama_model = JNull
    /\ status = 0
    /\ raised = "none"
    /\ respHeaders = <<>>
    /\ out = <<>>
    /\ rawOut = <<>>
    /\ sent = <<>>
    /\ outcome = NoOutcome
    /\ client = "none"
    /\ closes = 0
    /\ lines = <<>>
    /\ streamEnd = "none"

\* mapped = map_options(options), or the exception it raises.
MapOptions ==
    /\ pc = "idle"
    /\ UNCHANGED <<workers, clients>>
    /\ pc' = "done"
    /\ mapped' = map_options(options).val
    /\ raised' = map_options(options).exc
    /\ UNCHANGED <<req, route, options, payload, ollama_model, status, respHeaders, out, rawOut,
                   sent, outcome, client, closes, lines, streamEnd>>

NextOptions == MapOptions

SpecOptions == InitOptions /\ [][NextOptions]_vars

(***************************************************************************)
(* Several requests in flight.  Every call of the handler is a coroutine   *)
(* of its own on one event loop; a step of the system is a step of one of  *)
(* them, between two of its awaits.  The handler keeps its backend client  *)
(* in a local variable and the module has no client of its own.            *)
(***************************************************************************)
\* What a request does with the backend: nothing (api/tags), one buffered
\* exchange of a translated route, one buffered passthrough exchange, a
\* translated stream, a backend-native stream.
Kinds == {"tags", "translated", "passthrough", "translatedstream", "native"}

\* Failures of an exchange of one of several requests.
ConcurrentExcs == {"ReadTimeout", "ConnectError"}

\* httpx.AsyncClient(timeout=timeout), constructed by request i.
NewClient(i) == [owner |-> i, state |-> "open", users |-> {}]

\* Request i sends or reads through client c.
Used(c, i) == [clients EXCEPT ![c].users = @ \cup {i}]

\* Request i sends or reads through client c and closes it.
UsedAndClosed(c, i) == [clients EXCEPT ![c].users = @ \cup {i}, ![c].state = "closed"]

\* Request i arrives and is routed; api/tags answers on the spot.
Arrive(i) ==
    /\ workers[i].pc = "idle"
    /\ \E k \in Kinds :
         workers' = [workers EXCEPT ![i].kind = k,
                                    ![i].pc = IF k = "tags" THEN "done" ELSE "routed",
                                    ![i].status = IF k = "tags" THEN 200 ELSE 0]
    /\ UNCHANGED <<clients, requestVars>>

\* A client kept by the module and handed to every request.
CreateShared(i) ==
    /\ workers[i].pc = "routed"
    /\ clients' = IF clients = <<>> THEN <<NewClient(i)>> ELSE clients
    /\ workers' = [workers EXCEPT ![i].pc = "created", ![i].client = 1]
    /\ UNCHANGED requestVars

\* client = httpx.AsyncClient(timeout=timeout): a new object, bound to a
\* local variable of this call.
Create(i) ==
    /\ workers[i].pc = "routed"
    /\ clients' = Append(clients, NewClient(i))
    /\ workers' = [workers EXCEPT ![i].pc = "created", ![i].client = Len(clients) + 1]
    /\ UNCHANGED requestVars

\* The buffered exchange: the client is closed on success and on failure,
\* and a failure is answered by the except clause that matches.
Call(i) ==
    /\ workers[i].pc = "created"
    /\ workers[i].kind \in {"translated", "passthrough"}
    /\ \E e \in {"none"} \cup ConcurrentExcs :
         workers' = [workers EXCEPT
                       ![i].pc = "done",
                       ![i].raised = e,
                       ![i].status = IF e = "none" THEN 200
                                     ELSE IF workers[i].kind = "translated"
                                          THEN FirstMatch(TranslatedExcept, e)
                                          ELSE FirstMatch(PassthroughExcept, e)]
    /\ clients' = UsedAndClosed(workers[i].client, i)
    /\ UNCHANGED requestVars

\* The stream is opened.  A translated stream has answered 200 by then and
\* a failure is raised in its generator ahead of the try block, the client
\* left open; the native relay closes the client and answers the failure.
Open(i) ==
    /\ workers[i].pc = "created"
    /\ workers[i].kind \in {"translatedstream", "native"}
    /\ \E e \in {"none"} \cup ConcurrentExcs :
         IF e = "none"
         THEN /\ workers' = [workers EXCEPT ![i].pc = "streaming", ![i].status = 200]
              /\ clients' = Used(workers[i].client, i)
         ELSE IF workers[i].kind = "native"
         THEN /\ workers' = [workers EXCEPT ![i].pc = "done", ![i].raised = e,
                                            ![i].status = FirstMatch(PassthroughExcept, e)]
              /\ clients' = UsedAndClosed(workers[i].client, i)
         ELSE /\ workers' = [workers EXCEPT ![i].pc = "done", ![i].raised = e, ![i].status = 200]
              /\ clients' = Used(workers[i].client, i)
    /\ UNCHANGED requestVars

\* One line or chunk is read from the stream and a frame is emitted.
Emit(i) ==
    /\ workers[i].pc = "streaming"
    /\ workers[i].frames < MaxFrames
    /\ workers' = [workers EXCEPT ![i].frames = @ + 1]
    /\ clients' = Used(workers[i].client, i)
    /\ UNCHANGED requestVars

\* The stream ends, by its end, a read failure or the caller going away:
\* the finally clause of the generator closes the client.
Close(i) ==
    /\ workers[i].pc = "streaming"
    /\ \E e \in {"none"} \cup ConcurrentExcs :
         workers' = [workers EXCEPT ![i].pc = "done", ![i].raised = e]
    /\ clients' = [clients EXCEPT ![workers[i].client].state = "closed"]
    /\ UNCHANGED requestVars

NextConcurrent ==
    \E i \in 1..MaxRequests : Arrive(i) \/ Create(i) \/ Call(i) \/ Open(i) \/ Emit(i) \/ Close(i)

SpecConcurrent == Init /\ [][NextConcurrent]_vars

(***************************************************************************)
(* Vocabulary of the properties.                                           *)
(***************************************************************************)
\* The request is served by one of the translated routes.
Translated == route \in {"chat", "generate"}

\* Positions of the frames with done = true.
Terminals(frames) == {i \in 1..Len(frames) : IsTerminal(frames[i])}

\* done = true exactly once, in the last frame.
ExactlyOneLast(frames) == frames # <<>> /\ Terminals(frames) = {Len(frames)}

\* The backend's lines, as the backend builds them.
DoneLine == <<"data:", " ">> \o DONE

PieceTexts == {<<>>, <<"He">>, <<"llo">>}

PieceLine(p) == DeltaLine(Member("content", <<Q>> \o p \o <<Q>>))

RoleLine == DeltaLine(Member("role", Lit("assistant"))) \o <<" ">>

\* A well-formed data line: a delta with a piece, or with no content at all.
IsPieceLine(line) == line = RoleLine \/ \E p \in PieceTexts : line = PieceLine(p)

PieceOfLine(line) ==
    IF line = RoleLine THEN <<>> ELSE CHOOSE p \in PieceTexts : line = PieceLine(p)

\* Lines that carry nothing: blank, not a data line, payload that is not JSON.
NoiseLines == { <<>>, <<":", " ", "ping">>, <<"data:", " ", "{", Q, "choices">> }

\* Data lines whose payload is JSON without choices[0].delta.
ShapelessLines ==
    { <<"data:">> \o Obj(<<>>),
      <<"data:", " ">> \o Choice(<<>>),
      <<"data:", " ">> \o Choice(Obj(<<>>)) }

RECURSIVE Concat(_)
Concat(texts) == IF texts = <<>> THEN <<>> ELSE Head(texts) \o Concat(Tail(texts))

\* The pieces of the well-formed lines among the first n lines read.
RECURSIVE PiecesRead(_)
PiecesRead(n) ==
    IF n = 0 THEN <<>>
    ELSE IF IsPieceLine(lines[n]) THEN Append(PiecesRead(n - 1), PieceOfLine(lines[n]))
    ELSE PiecesRead(n - 1)

NonEmpty(p) == p # <<>>

NotTerminal(f) == ~IsTerminal(f)

\* The text of the frames that are not terminal, in order.
ContentTexts ==
    [i \in 1..Len(SelectSeq(out, NotTerminal)) |-> FrameText(SelectSeq(out, NotTerminal)[i]).s]

\* The stream was a run of well-formed lines and then the sentinel, and the
\* client stayed to the end.
PiecesThenDone ==
    /\ Translated /\ pc = "done" /\ lines # <<>> /\ streamEnd # "disconnect"
    /\ lines[Len(lines)] = DoneLine
    /\ \A i \in 1..(Len(lines) - 1) : IsPieceLine(lines[i])

(***************************************************************************)
(* C1.  Every front-protocol response of api/chat and api/generate,        *)
(* buffered or streamed, has done = true exactly once, in its last frame,  *)
(* however the backend stream ends (sentinel, close, read error).          *)
(***************************************************************************)
C1_EveryResponseTerminated ==
    (Translated /\ pc = "done" /\ status = 200
        /\ streamEnd \in {"none", "sentinel", "eof", "readerror"})
    => ExactlyOneLast(out)

\* C1 as amended: a buffered 200 response has done = true exactly once;
\* a streamed response has it at most once and only in its last frame,
\* exactly once when the stream ends by the sentinel, and not at all when
\* the stream ends any other way.
C1_TerminalOnlyBySentinel ==
    /\ (Translated /\ pc = "done" /\ status = 200 /\ streamEnd = "none")
          => ExactlyOneLast(out)
    /\ (Translated /\ streamEnd = "sentinel") => ExactlyOneLast(out)
    /\ (Translated /\ streamEnd \in {"eof", "readerror", "raise", "openfail"})
          => Terminals(out) = {}
    /\ Translated => Terminals(out) \subseteq {Len(out)}

C1_Witness ==
    Translated /\ pc = "done" /\ streamEnd = "sentinel" /\ Len(out) = 2

(***************************************************************************)
(* C2.  Once the frame with done = true is out, a streamed response emits  *)
(* no further frame and reads no further backend line; there is at most    *)
(* one terminal frame.                                                     *)
(***************************************************************************)
C2_NothingAfterTerminal ==
    /\ [](Translated => Cardinality(Terminals(out)) <= 1)
    /\ []((Translated /\ pc \in {"stream", "yield"}) => Terminals(out) = {})
    /\ [][(Translated /\ pc # "done" /\ Terminals(out) # {})
            => (out' = out /\ lines' = lines /\ pc' \in {"done", "cancelled"})]_vars

C2_Witness ==
    Translated /\ pc = "yieldfinal" /\ Len(lines) < MaxLines /\ Len(out) >= 2

(***************************************************************************)
(* C3.  Well-formed data lines with pieces p1..pn and then the sentinel    *)
(* give one content frame per non-empty piece, in order, each with exactly *)
(* that piece, so that the frames' text concatenates to p1 + ... + pn, and *)
(* then exactly one done = true frame.                                     *)
(***************************************************************************)
C3_PiecesInOrder ==
    PiecesThenDone =>
        /\ ExactlyOneLast(out)
        /\ ContentTexts = SelectSeq(PiecesRead(Len(lines) - 1), NonEmpty)
        /\ \A i \in 1..(Len(out) - 1) : FrameText(out[i]).t = "str"
        /\ Concat(ContentTexts) = Concat(PiecesRead(Len(lines) - 1))
        /\ streamEnd = "sentinel" /\ raised = "none"

C3_Witness ==
    /\ PiecesThenDone
    /\ PiecesRead(Len(lines) - 1) = << <<"He">>, <<"llo">> >>
    /\ Len(out) = 3

(***************************************************************************)
(* C4.  A data line whose payload is not JSON, a blank line and a line     *)
(* without the data: prefix produce no frame and do not end the stream:    *)
(* the frames of the valid lines around them and the terminal frame are    *)
(* still emitted, in order.                                                *)
(***************************************************************************)
\* Every line read is noise or well-formed, the last one possibly the sentinel.
NoiseAndPieces ==
    /\ Translated /\ lines # <<>>
    /\ \A i \in 1..Len(lines) :
          \/ lines[i] \in NoiseLines
          \/ IsPieceLine(lines[i])
          \/ (i = Len(lines) /\ lines[i] = DoneLine)

C4_NoiseIsSkipped ==
    /\ [](NoiseAndPieces =>
            /\ streamEnd # "raise"
            /\ ContentTexts = SelectSeq(PiecesRead(Len(lines)), NonEmpty)
            /\ (lines[Len(lines)] = DoneLine => ExactlyOneLast(out)))
    /\ [][(pc = "stream" /\ Len(lines') = Len(lines) + 1
             /\ lines'[Len(lines')] \in NoiseLines)
            => (pc' = "stream" /\ out' = out /\ raised' = raised /\ client' = client)]_vars

C4_Witness ==
    /\ NoiseAndPieces
    /\ lines = <<PieceLine(<<"He">>), <<"data:", " ", "{", Q, "choices">>, PieceLine(<<"llo">>)>>
    /\ Len(out) = 2

(***************************************************************************)
(* C5.  A data line that decodes as JSON but has no choices key, an empty  *)
(* choices list or no delta in the first choice is skipped, and the lines  *)
(* after it are still transcoded.                                          *)
(***************************************************************************)
C5_ShapelessLineIsSkipped ==
    (Translated /\ lines # <<>> /\ lines[Len(lines)] \in ShapelessLines)
    => (streamEnd # "raise" /\ raised \notin {"KeyError", "IndexError", "TypeError"})

(***************************************************************************)
(* C6.  On the translated routes, as on the passthrough routes, a backend  *)
(* connect failure gives 503, a backend read timeout 504 and a            *)
(* non-timeout HTTP error of the backend 502.                              *)
(***************************************************************************)
C6_UniformClassification ==
    (Translated /\ pc = "done" /\ outcome # NoOutcome)
    => /\ (outcome.exc = "ConnectTimeout" => status = 503)
       /\ (outcome.exc = "ReadTimeout" => status = 504)
       /\ ((outcome.exc = "none" /\ outcome.status >= 400) => status = 502)

(***************************************************************************)
(* C7.  On the passthrough routes the outcome of the backend call gets     *)
(* exactly one status: connect timeout 503, read timeout 504, any other    *)
(* HTTP-client error 502, any other error 500; a timeout is never 502.     *)
(***************************************************************************)
\* HTTP-client errors that are not timeouts.
OtherClientErrors == {"ConnectError", "ReadError"}

\* The exchange of a passthrough request failed before a response existed.
PassthroughFailed ==
    route \in {"passthrough", "native"} /\ pc = "done" /\ outcome.exc # "none"

C7_PassthroughClassification ==
    PassthroughFailed =>
        /\ (outcome.exc = "ConnectTimeout" <=> status = 503)
        /\ (outcome.exc = "ReadTimeout" <=> status = 504)
        /\ (outcome.exc \in OtherClientErrors <=> status = 502)
        /\ (outcome.exc \notin {"ConnectTimeout", "ReadTimeout"} \cup OtherClientErrors
              <=> status = 500)
        /\ raised = "none"

C7_Witness ==
    PassthroughFailed /\ route = "native" /\ outcome.exc = "ReadTimeout" /\ status = 504

(***************************************************************************)
(* C8.  On the translated routes, streaming or not, a connection-level     *)
(* backend failure (connect timeout, refused connection, read timeout,     *)
(* non-2xx status) is never answered with 200 and never escapes as an      *)
(* exception: the client gets one of the classified statuses.              *)
(***************************************************************************)
ConnectionLevelFailure ==
    \/ outcome.exc \in {"ConnectTimeout", "ConnectError", "ReadTimeout"}
    \/ (outcome.exc = "none" /\ outcome.status >= 400)

C8_FailureNever200 ==
    (Translated /\ pc = "done" /\ ConnectionLevelFailure)
    => (status \in {500, 502, 503, 504} /\ raised = "none")

(***************************************************************************)
(* C9.  A non-streaming translated request whose backend reply is a        *)
(* success without a first choice or without its message content is        *)
(* answered with 502, not with an unhandled error.                         *)
(***************************************************************************)
\* Successful replies that lack choices, a first choice, message or content.
IncompleteReplies ==
    { Obj(<<>>), Choice(<<>>), Choice(Obj(<<>>)), Choice(Obj(Member("message", Obj(<<>>)))) }

C9_IncompleteReplyIs502 ==
    (Translated /\ pc = "done" /\ streamEnd = "none"
        /\ outcome.exc = "none" /\ outcome.status = 200 /\ outcome.body \in IncompleteReplies)
    => (status = 502 /\ raised = "none")

(***************************************************************************)
(* C10.  A POST to api/chat or api/generate whose body parsed as a JSON    *)
(* object under a JSON content type, the empty object included, is served  *)
(* by the translation path and never forwarded by the passthrough path.    *)
(***************************************************************************)
\* The request carries a JSON object under a JSON content type.
ParsedObject(r) ==
    /\ StartsWith(HeaderGet(r.headers, "content-type", <<>>), JsonType)
    /\ JsonLoads(r.body).ok
    /\ JsonLoads(r.body).val.t = "obj"

C10_ParsedPostIsTranslated ==
    (pc # "idle" /\ req.method = "POST" /\ req.path \in {"api/chat", "api/generate"}
        /\ ParsedObject(req))
    => (Translated /\ \A i \in 1..Len(sent) : sent[i] # Forwarded(req))

(***************************************************************************)
(* C11.  A request whose body cannot be used as parsed JSON (content type  *)
(* not JSON, empty body, or bytes that do not parse), on any path, is not  *)
(* rejected: the buffered passthrough handles it and forwards exactly the  *)
(* raw bytes received.                                                     *)
(***************************************************************************)
\* The body of the request cannot be used as parsed JSON.
Unparsed(r) ==
    \/ ~StartsWith(HeaderGet(r.headers, "content-type", <<>>), JsonType)
    \/ r.body = <<>>
    \/ ~JsonLoads(r.body).ok

\* The request went to the backend once, as received, and the client got
\* what the exchange gave.
ForwardedAsReceived ==
    /\ route = "passthrough"
    /\ Len(sent) = 1
    /\ sent[1].method = req.method /\ sent[1].path = req.path
    /\ sent[1].content = req.body
    /\ raised = "none"
    /\ (outcome.exc = "none" => status = outcome.status)

LocalInventory == req.method = "GET" /\ req.path = "api/tags"

ParsedJson(r) ==
    /\ r.body # <<>>
    /\ StartsWith(HeaderGet(r.headers, "content-type", <<>>), JsonType)
    /\ JsonLoads(r.body).ok

\* The parsed body carries a stream member that counts as true.
StreamDeclared(r) ==
    /\ ParsedJson(r)
    /\ JsonLoads(r.body).val.t = "obj"
    /\ K("stream") \in DOMAIN JsonLoads(r.body).val.o
    /\ Truthy(JsonLoads(r.body).val.o[K("stream")])

NativeConditions(r) ==
    /\ r.path \in {"v1/chat/completions", "v1/completions"}
    /\ r.method = "POST"
    /\ StreamDeclared(r)

C12_ExactlyOneHandler ==
    (pc # "idle" /\ req.path \notin {"api/chat", "api/generate", "api/tags"}) =>
        /\ route \in {"native", "passthrough"}
        /\ (route = "native" <=> NativeConditions(req))

(***************************************************************************)
(* C13.  Whatever model name and options the client supplies, the payload  *)
(* sent to the backend for a translated request has the configured backend *)
(* model, the client's messages and the request's stream flag, and no      *)
(* member beyond these and temperature, top_p, max_tokens; every response  *)
(* object and stream frame carries the model name the client asked for.    *)
(***************************************************************************)
\* The parsed body of the request being served.
ParsedBody == JsonLoads(req.body).val

\* The model name the client asked for ("ollama-model" when it gave none).
RequestedModel ==
    IF K("model") \in DOMAIN ParsedBody.o THEN ParsedBody.o[K("model")]
    ELSE JStr(<<"ollama-model">>)

\* The conversation the client sent: its messages, or its prompt as one
\* user message.
RequestedMessages ==
    IF route = "chat"
    THEN IF K("messages") \in DOMAIN ParsedBody.o THEN ParsedBody.o[K("messages")] ELSE JArr(<<>>)
    ELSE JArr(<<JObj((K("role") :> JStr(<<"user">>)) @@
                    (K("content") :> IF K("prompt") \in DOMAIN ParsedBody.o
                                     THEN ParsedBody.o[K("prompt")] ELSE JStr(<<>>)))>>)

PayloadNames == {K("model"), K("messages"), K("stream"),
                 K("temperature"), K("top_p"), K("max_tokens")}

FixedMembers(p) ==
    /\ p.t = "obj"
    /\ DOMAIN p.o \subseteq PayloadNames
    /\ p.o[K("model")] = JStr(<<VLLM_MODEL>>)
    /\ p.o[K("messages")] = RequestedMessages
    /\ p.o[K("stream")] = JBool(StreamDeclared(req))

C13_BackendModelFixed ==
    Translated =>
        /\ \A i \in 1..Len(sent) : FixedMembers(sent[i].json)
        /\ status = 200 => \A i \in 1..Len(out) : out[i].o[K("model")] = RequestedModel

C13_Witness ==
    /\ Translated /\ pc = "done" /\ status = 200
    /\ K("options") \in DOMAIN ParsedBody.o
    /\ ParsedBody.o[K("options")].t = "obj"
    /\ {K("model"), K("stream"), K("messages")} \subseteq DOMAIN ParsedBody.o[K("options")].o
    /\ Len(sent) = 1 /\ Len(out) = 1
    /\ RequestedModel = JStr(<<"m1">>)

(***************************************************************************)
(* C14.  map_options is total on option mappings (absent, empty, any set   *)
(* of keys): the result has temperature and top_p exactly when the input   *)
(* has them, with the same values; max_tokens equal to the input's         *)
(* max_tokens when that is present (also next to num_predict), otherwise   *)
(* to num_predict when that is present, otherwise no max_tokens; and no    *)
(* other key.                                                              *)
(***************************************************************************)
\* The options given to map_options have the key.
Has(name) == options.t = "obj" /\ K(name) \in DOMAIN options.o

\* map_options has been applied to the options.
Mapped == pc = "done" /\ req = NoRequest

Copied(name) ==
    K(name) \in DOMAIN mapped.o <=> Has(name)

C14_MapOptionsTotal ==
    Mapped =>
        /\ raised = "none"
        /\ mapped.t = "obj"
        /\ DOMAIN mapped.o \subseteq {K("temperature"), K("top_p"), K("max_tokens")}
        /\ Copied("temperature")
        /\ Has("temperature") => mapped.o[K("temperature")] = options.o[K("temperature")]
        /\ Copied("top_p")
        /\ Has("top_p") => mapped.o[K("top_p")] = options.o[K("top_p")]
        /\ K("max_tokens") \in DOMAIN mapped.o <=> (Has("max_tokens") \/ Has("num_predict"))
        /\ Has("max_tokens") => mapped.o[K("max_tokens")] = options.o[K("max_tokens")]
        /\ (Has("num_predict") /\ ~Has("max_tokens"))
              => mapped.o[K("max_tokens")] = options.o[K("num_predict")]

C14_Witness ==
    /\ Mapped
    /\ Has("num_predict") /\ Has("max_tokens") /\ Has("top_k") /\ ~Has("top_p")
    /\ options.o[K("num_predict")] = JNum("7") /\ options.o[K("max_tokens")] = JNum("0")
    /\ mapped.o[K("max_tokens")] = JNum("0")

(***************************************************************************)
(* C15.  When the backend answers a non-streaming translated request with  *)
(* first-choice content C and finish reason R, the synthesized response    *)
(* has done = true, done_reason = R and the text C: in message.content     *)
(* with role "assistant" on the chat route, in the response field, with no *)
(* message object, on the generate route.                                  *)
(***************************************************************************)
\* The backend's reply to the buffered call, decoded.
BackendData == JsonLoads(outcome.body).val

\* The buffered call of a translated request got a successful JSON reply.
BufferedReply ==
    /\ Translated /\ pc = "done" /\ streamEnd = "none"
    /\ outcome.exc = "none" /\ outcome.status = 200
    /\ JsonLoads(outcome.body).ok

\* The reply has a first choice with message content.
HasContent ==
    /\ BackendData.t = "obj" /\ K("choices") \in DOMAIN BackendData.o
    /\ BackendData.o[K("choices")].t = "arr" /\ BackendData.o[K("choices")].a # <<>>
    /\ BackendData.o[K("choices")].a[1].t = "obj"
    /\ K("message") \in DOMAIN BackendData.o[K("choices")].a[1].o
    /\ BackendData.o[K("choices")].a[1].o[K("message")].t = "obj"
    /\ K("content") \in DOMAIN BackendData.o[K("choices")].a[1].o[K("message")].o

BackendChoice == BackendData.o[K("choices")].a[1]

BackendContent == BackendChoice.o[K("message")].o[K("content")]

\* The first choice gives a finish reason.
HasFinishReason ==
    /\ K("finish_reason") \in DOMAIN BackendChoice.o
    /\ BackendChoice.o[K("finish_reason")].t = "str"

C15_ContentAndReasonCarried ==
    (BufferedReply /\ HasContent /\ HasFinishReason) =>
        /\ status = 200 /\ Len(out) = 1
        /\ out[1].o[K("done")] = JBool(TRUE)
        /\ out[1].o[K("done_reason")] = BackendChoice.o[K("finish_reason")]
        /\ route = "chat" =>
              /\ out[1].o[K("message")] =
                    JObj((K("role") :> JStr(<<"assistant">>)) @@ (K("content") :> BackendContent))
              /\ K("response") \notin DOMAIN out[1].o
        /\ route = "generate" =>
              /\ out[1].o[K("response")] = BackendContent
              /\ K("message") \notin DOMAIN out[1].o

C15_Witness ==
    /\ BufferedReply /\ HasContent /\ HasFinishReason
    /\ route = "generate"
    /\ BackendContent = JStr(<<"Hi">>)
    /\ out[1].o[K("response")] = JStr(<<"Hi">>)
    /\ out[1].o[K("done_reason")] = JStr(<<"length">>)

(***************************************************************************)
(* C16.  In a synthesized non-streaming response done_reason is "stop"     *)
(* whenever the first choice gives no finish reason (key absent or null),  *)
(* prompt_eval_count and eval_count are 0 whenever the backend gives no    *)
(* usage figures (usage absent, null or without the token fields), the     *)
(* four durations are 0, and missing usage never makes the request fail.   *)
(***************************************************************************)
\* The member is absent from the object or null.
Missing(o, name) == K(name) \notin DOMAIN o \/ o[K(name)] = JNull

\* The reply gives no figure of that name: no usage, or usage without it.
NoFigure(name) ==
    \/ Missing(BackendData.o, "usage")
    \/ (BackendData.o[K("usage")].t = "obj" /\ Missing(BackendData.o[K("usage")].o, name))

C16_DefaultsForMissingFigures ==
    (BufferedReply /\ HasContent) =>
        /\ status = 200 /\ raised = "none" /\ Len(out) = 1
        /\ Missing(BackendChoice.o, "finish_reason") => out[1].o[K("done_reason")] = JStr(<<"stop">>)
        /\ NoFigure("prompt_tokens") => out[1].o[K("prompt_eval_count")] = Zero
        /\ NoFigure("completion_tokens") => out[1].o[K("eval_count")] = Zero
        /\ \A d \in {"total_duration", "load_duration", "prompt_eval_duration", "eval_duration"} :
              out[1].o[K(d)] = Zero

(***************************************************************************)
(* C17.  GET api/tags always returns 200 with a model list of exactly one  *)
(* entry (size 0, empty digest) and makes no backend call, whatever the    *)
(* state of the backend.                                                   *)
(***************************************************************************)
C17_TagsIsStatic ==
    (pc = "done" /\ LocalInventory) =>
        /\ status = 200 /\ raised = "none"
        /\ Len(out) = 1
        /\ DOMAIN out[1].o = {K("models")}
        /\ Len(out[1].o[K("models")].a) = 1
        /\ out[1].o[K("models")].a[1].o[K("size")] = Zero
        /\ out[1].o[K("models")].a[1].o[K("digest")] = JStr(<<>>)
        /\ sent = <<>> /\ outcome = NoOutcome /\ client = "none" /\ closes = 0

C17_Witness ==
    /\ pc = "done" /\ LocalInventory
    /\ req.headers = Host @@ ContentType(JsonType) /\ req.body = <<"[", "1", "]">>
    /\ status = 200 /\ Len(out) = 1

(***************************************************************************)
(* C18.  The buffered passthrough sends the backend the method, path,      *)
(* query string and body as received and the headers as received but for   *)
(* the host header, which is removed; it returns to the client exactly the *)
(* backend's status code (a backend 404 is a 404, never a 502), headers    *)
(* and body.                                                               *)
(***************************************************************************)
\* The headers of the request other than host.
HeadersButHost == [k \in DOMAIN req.headers \ {"host"} |-> req.headers[k]]

C18_PassthroughUnchanged ==
    (route = "passthrough" /\ pc = "done") =>
        /\ Len(sent) = 1
        /\ sent[1].method = req.method /\ sent[1].path = req.path
        /\ sent[1].params = req.query /\ sent[1].content = req.body
        /\ sent[1].headers = HeadersButHost /\ "host" \notin DOMAIN sent[1].headers
        /\ raised = "none"
        /\ outcome.exc = "none" =>
              /\ status = outcome.status
              /\ respHeaders = outcome.headers
              /\ rawOut = <<outcome.body>> /\ out = <<>>

C18_Witness ==
    /\ route = "passthrough" /\ pc = "done"
    /\ req.method = "DELETE" /\ req.path = "v1/models" /\ req.query = <<"verbose=1">>
    /\ req.headers = Host @@ ContentType(<<"text/plain">>) /\ req.body = <<"null">>
    /\ outcome.exc = "none" /\ outcome.status = 404 /\ outcome.body = <<"Not", " ", "Found">>
    /\ status = 404 /\ rawOut = << <<"Not", " ", "Found">> >>

(***************************************************************************)
(* C19.  The backend-native streaming passthrough relays the backend's     *)
(* chunks unchanged and in the order received, with the backend's status   *)
(* code and content type (text/event-stream when the backend sends none):  *)
(* what is relayed concatenates to what was received.                      *)
(***************************************************************************)
\* A native streaming request is over and the backend did not fail it.
NativeServed ==
    route = "native" /\ pc = "done" /\ outcome.exc \notin BackendExcs

C19_NativeRelaysBackend ==
    NativeServed =>
        /\ outcome.exc = "none"
        /\ status = outcome.status
        /\ respHeaders["content-type"] =
              HeaderGet(outcome.headers, "content-type", <<"text/event-stream">>)
        /\ rawOut = SelectSeq(lines, NonEmpty)
        /\ Concat(rawOut) = Concat(lines)

C21_ClientAlwaysReleased ==
    (Translated /\ pc = "done") => client # "open"

(***************************************************************************)
(* C22.  When the client disconnects in the middle of a streamed response, *)
(* translated or backend-native, the backend read in flight is cancelled,  *)
(* no frame or chunk is emitted after the cancellation, and the backend    *)
(* connection is eventually released.                                      *)
(***************************************************************************)
\* The client left while the streamer was running.
Cancelled == streamEnd = "disconnect" /\ pc = "cancelled"

C22_DisconnectReleases ==
    /\ [][Cancelled => (lines' = lines /\ out' = out /\ rawOut' = rawOut /\ sent' = sent)]_vars
    /\ [][(Cancelled /\ pc' # "cancelled") => (pc' = "done" /\ client' = "closed")]_vars
    /\ (Cancelled ~> (pc = "done" /\ client = "closed" /\ closes = 1))

C22_Witness ==
    /\ streamEnd = "disconnect" /\ pc = "done" /\ client = "closed"
    /\ Translated /\ Len(lines) = 2 /\ Len(out) = 1

(***************************************************************************)
(* C23.  Every inbound request causes at most one request to the backend,  *)
(* on every route and for every backend outcome: after a timeout or error  *)
(* no second attempt is made, and no retry or backoff state is carried     *)
(* over to later requests.                                                 *)
(***************************************************************************)
C23_SingleAttempt ==
    /\ [](Len(sent) <= 1)
    /\ [][(outcome.exc # "none" /\ pc' # "idle") => sent' = sent]_vars
    /\ [](pc = "idle" =>
            (sent = <<>> /\ outcome = NoOutcome /\ client = "none" /\ closes = 0
               /\ raised = "none" /\ status = 0))

C23_Witness ==
    /\ pc = "done" /\ route = "passthrough"
    /\ outcome.exc = "ReadTimeout" /\ status = 504
    /\ Len(sent) = 1

(***************************************************************************)
(* C24.  With several requests in flight and any interleaving of their     *)
(* steps, each request uses a backend client it created itself: no client  *)
(* is used by two requests, none is used again after its request ended,    *)
(* and a step of one request (closing its client, timing out, failing)     *)
(* changes neither the frames and status nor the client of another.        *)
(***************************************************************************)
\* The clients created so far.
ClientIds == 1..Len(clients)

\* The requests that can be in flight together.
RequestIds == 1..MaxRequests

C24_ClientsArePrivate ==
    /\ [](\A c \in ClientIds : clients[c].users \subseteq {clients[c].owner})
    /\ [](\A i \in RequestIds :
            workers[i].client # 0 =>
                (workers[i].client \in ClientIds /\ clients[workers[i].client].owner = i))
    /\ [][\A c \in ClientIds :
            workers[clients[c].owner].pc = "done" => clients'[c] = clients[c]]_vars
    /\ [][\A i \in RequestIds :
            workers'[i] # workers[i] =>
                \A j \in RequestIds \ {i} :
                    /\ workers'[j] = workers[j]
                    /\ workers[j].client # 0 =>
                          clients'[workers[j].client] = clients[workers[j].client]]_vars

\* One request has timed out and closed its client while another, which
\* has emitted a frame, still streams through its own open client.
C24_Witness ==
    \E i \in RequestIds : \E j \in RequestIds \ {i} :
        /\ workers[i].pc = "done" /\ workers[i].raised = "ReadTimeout"
        /\ workers[i].client # 0 /\ clients[workers[i].client].state = "closed"
        /\ workers[j].pc = "streaming" /\ workers[j].frames >= 1
        /\ workers[j].client # workers[i].client
        /\ clients[workers[j].client].state = "open"
        /\ clients[workers[j].client].users = {j}

(***************************************************************************)
(* C26.  Routing never fails on the request body: for every POST whose     *)
(* body parses as a JSON value of any kind (object, array, string, number, *)
(* boolean, null), reading the stream flag and classifying the request     *)
(* completes and exactly one handler is selected, without an unhandled     *)
(* error.                                                                  *)
(***************************************************************************)
\* The branches of the handler.
Handlers == {"chat", "generate", "tags", "native", "passthrough"}

C26_RoutingNeverFails ==
    (pc # "idle" /\ req.method = "POST" /\ ParsedJson(req))
    => route \in Handlers

(***************************************************************************)
(* C25.  In the plain passthrough variant, for POST api/chat the backend   *)
(* response is streamed to the client chunk by chunk: every chunk is       *)
(* relayed in order while the backend stream and client are still open,    *)
(* and they are closed only after the last chunk has been relayed (or the  *)
(* relay failed), never before the relay reads its first chunk.            *)
(***************************************************************************)
C25_PlainRelayWhileOpen ==
    /\ (route = "plainstream" /\ pc = "plainrelay" /\ lines = <<>>) => client = "open"
    /\ (route = "plainstream" /\ pc = "done" /\ outcome.exc = "none") => raised # "StreamClosed"

====
